---- MODULE Spec2Model ----
(***************************************************************************)
(* Bike Taxi API (src/main.py, src/schemas.py): the ride lifecycle, the    *)
(* driver status upsert and the driver directory over a document store     *)
(* with three collections (user, ride, driverstatus).                       *)
(*                                                                         *)
(* Strings that are used as identifiers are modelled as records            *)
(* [wf, n]: wf = TRUE is the 24-hex-digit rendering of ObjectId n, and      *)
(* wf = FALSE is some other string (number n).  Optional values are         *)
(* modelled as <<>> (None) or <<v>>.                                        *)
(***************************************************************************)
EXTENDS Integers, Sequences, FiniteSets, TLC

\* ---- bounds of the model ----
\* MaxClock caps the number of writes: every insert and update stamps the
\* logical time clock and advances it, and a report reserves its tick when it
\* starts.  NumProcs is the number of workers that can hold a report between
\* its lookup and its write; a request goes to the lowest free worker.
MaxUsers == 2
MaxRides == 2
MaxClock == 3
NumProcs == 2
\* the listing is checked on stores of up to MaxListed rides whose creation
\* times run over TimeSpread values
MaxListed == 22
TimeSpread == 5

Procs == 1..NumProcs

VARIABLES dbOK, users, rides, statuses, nextOid, clock, pc, body, existing, last

vars == <<dbOK, users, rides, statuses, nextOid, clock, pc, body, existing, last>>

\* ---- values ----
None == <<>>
Some(v) == <<v>>

\* str(ObjectId(n)): the 24-hex-digit string of an ObjectId
str_oid(oid) == [wf |-> TRUE, n |-> oid]
\* the empty string and the string "not-an-id"
EmptyStr == [wf |-> FALSE, n |-> 0]
NotAnId == [wf |-> FALSE, n |-> 1]

\* ObjectId(s) raises unless s is a well-formed ObjectId string
\* a parse that accepts every string
ObjectIdValid_lax(s) == TRUE

ObjectIdValid(s) == s.wf
ObjectId(s) == s.n

ValidStatuses == {"requested", "accepted", "picked_up", "completed", "cancelled"}
Terminal == {"completed", "cancelled"}
StatusInputs == ValidStatuses \cup {"bogus"}

\* ---- responses ----
OK == [code |-> 200, detail |-> "ok"]
\* a handler that answers a missing store like a bad request
StoreUnavailable_as_bad_request == [code |-> 400, detail |-> "Invalid ride id"]

StoreUnavailable == [code |-> 500, detail |-> "Database not configured"]
InvalidId == [code |-> 400, detail |-> "Invalid ride id"]
InvalidStatus == [code |-> 400, detail |-> "Invalid status"]
NotFound == [code |-> 404, detail |-> "Ride not found"]

\* ---- documents ----
\* to_str_id: the document with "_id" replaced by "id" = str(_id)
to_str_id(doc) ==
    [k \in (DOMAIN doc \ {"_id"}) \cup {"id"} |->
        IF k = "id" THEN str_oid(doc._id) ELSE doc[k]]

\* identifiers numbered per collection instead of store-wide
create_document_numbered_per_collection(coll, data, oid, now) ==
    Append(coll, data @@ [_id |-> Len(coll) + 1, created_at |-> now, updated_at |-> now])

\* create_document: stamps created_at / updated_at, inserts under a fresh id
create_document(coll, data, oid, now) ==
    Append(coll, data @@ [_id |-> oid, created_at |-> now, updated_at |-> now])

\* class User / Ride / DriverStatus: the dumped models
User(name, role, phone, is_active) ==
    [name |-> name, role |-> role, phone |-> phone, is_active |-> is_active]

\* a ride document that starts with a driver
Ride_preassigned(rider_id, pickup, dropoff, status) ==
    [rider_id |-> rider_id, pickup |-> pickup, dropoff |-> dropoff,
     status |-> status, driver_id |-> Some(rider_id), fare_estimate |-> None]

Ride(rider_id, pickup, dropoff, status) ==
    [rider_id |-> rider_id, pickup |-> pickup, dropoff |-> dropoff,
     status |-> status, driver_id |-> None, fare_estimate |-> None]

UpdateDriverStatus(user_id, is_available, lat, lng) ==
    [user_id |-> user_id, is_available |-> is_available, lat |-> lat, lng |-> lng]

Init ==
    /\ dbOK \in BOOLEAN
    /\ users = <<>>
    /\ rides = <<>>
    /\ statuses = <<>>
    /\ nextOid = 1
    /\ clock = 0
    /\ pc = [p \in Procs |-> "idle"]
    /\ body = [p \in Procs |-> None]
    /\ existing = [p \in Procs |-> None]
    /\ last = [op |-> "none", result |-> OK]

\* POST /api/users
create_user(role, is_active) ==
    /\ IF ~dbOK
       THEN /\ last' = [op |-> "create_user", result |-> StoreUnavailable]
            /\ UNCHANGED <<users, nextOid, clock>>
       ELSE /\ Len(users) < MaxUsers
            /\ clock < MaxClock
            /\ users' = create_document(users, User("n", role, None, is_active), nextOid, clock)
            /\ nextOid' = nextOid + 1
            /\ clock' = clock + 1
            /\ last' = [op |-> "create_user", result |-> OK, id |-> str_oid(nextOid)]
    /\ UNCHANGED <<dbOK, rides, statuses, pc, body, existing>>

\* ---- the store (pymongo collections, in insertion order) ----
\* a handler that never looks at matched_count
matched_count_unchecked(coll, oid) == Cardinality({oid})

\* collection.update_one({"_id": oid}, {"$set": fields})
matched_count(coll, oid) ==
    IF \E i \in DOMAIN coll : coll[i]._id = oid THEN 1 ELSE 0

\* update_many with a filter that matches every document
\* a write that is dropped when the document was already written once
update_one_first_write_wins(coll, oid, fields) ==
    [i \in DOMAIN coll |->
        IF coll[i]._id = oid /\ coll[i].updated_at = coll[i].created_at
        THEN fields @@ coll[i] ELSE coll[i]]

update_every(coll, oid, fields) ==
    [i \in DOMAIN coll |-> fields @@ coll[i]]

update_one(coll, oid, fields) ==
    [i \in DOMAIN coll |->
        IF coll[i]._id = oid /\ (\A j \in 1..(i - 1) : coll[j]._id # oid)
        THEN fields @@ coll[i]
        ELSE coll[i]]

\* ---- inputs ----
RideIdStrs == {str_oid(rides[i]._id) : i \in DOMAIN rides}
\* rider_id, driver_id and user_id are unchecked strings: the callers draw them
\* from the strings of the first two identifiers the store issues (and "")
RiderIdInputs == {str_oid(1), EmptyStr}
DriverIdInputs == {str_oid(1), str_oid(2)}
ReportIdInputs == {str_oid(1), str_oid(2)}
RideIdInputs == RideIdStrs \cup {str_oid(nextOid), NotAnId}
PayloadInputs == {<<TRUE, None, None>>, <<FALSE, Some(1), Some(2)>>}

\* GET /api/rides
ListLimit == 20

\* filter_q: the rider_id filter is added only when rider_id is truthy
filter_q(rider_id) ==
    IF rider_id # None /\ rider_id[1] # EmptyStr THEN Some(rider_id[1]) ELSE None

\* find(filter_q): the matching rides in store order
\* a query that matches nothing
find_rides_nothing(rs, fq) == SubSeq(rs, 1, 0)

find_rides(rs, fq) ==
    LET hit(r) == fq = None \/ r.rider_id = fq[1]
    IN  SelectSeq(rs, hit)

\* sort("created_at", -1): newest first, equal keys in store order
RECURSIVE sort_created_desc(_)
sort_created_desc(rs) ==
    IF Len(rs) = 0 THEN <<>>
    ELSE LET sorted == sort_created_desc(SubSeq(rs, 1, Len(rs) - 1))
             r == rs[Len(rs)]
             ahead == {i \in DOMAIN sorted : sorted[i].created_at >= r.created_at}
             k == Cardinality(ahead)
         IN  SubSeq(sorted, 1, k) \o <<r>> \o SubSeq(sorted, k + 1, Len(sorted))

\* limit(n)
limit(rs, n) == SubSeq(rs, 1, IF Len(rs) < n THEN Len(rs) ELSE n)

\* a listing that truncates before it sorts
list_rides_limit_first(rider_id) ==
    LET found == sort_created_desc(limit(find_rides(rides, filter_q(rider_id)), ListLimit))
    IN  [i \in DOMAIN found |-> to_str_id(found[i])]

list_rides(rider_id) ==
    LET found == limit(sort_created_desc(find_rides(rides, filter_q(rider_id))), ListLimit)
    IN  [i \in DOMAIN found |-> to_str_id(found[i])]

RiderFilterInputs == {None, Some(str_oid(1)), Some(EmptyStr)}

get_rides(rider_id) ==
    /\ last' = IF ~dbOK
               THEN [op |-> "list_rides", result |-> StoreUnavailable]
               ELSE [op |-> "list_rides", result |-> OK, rides |-> list_rides(rider_id)]
    /\ UNCHANGED <<dbOK, users, rides, statuses, nextOid, clock, pc, body, existing>>

\* find_one({"user_id": user_id}) on driverstatus: the first match in store
\* order, or None
\* a lookup that never finds a record
status_lookup_blind(sts, user_id) == None

status_lookup(sts, user_id) ==
    LET uid_match(st) == st.user_id = user_id
        hits == SelectSeq(sts, uid_match)
    IN  IF Len(hits) = 0 THEN None ELSE Some(hits[1])

\* GET /api/drivers
\* the filter without is_active
driver_filter_role_only(u) == u.role = "driver"

driver_filter(u) == u.role = "driver" /\ u.is_active = TRUE

attach_status(d) ==
    LET profile == to_str_id(d)
        status == status_lookup(statuses, profile.id)
    IN  profile @@ [status |->
            IF status = None THEN None
            ELSE Some([k \in DOMAIN status[1] \ {"_id"} |-> status[1][k]])]

list_available_drivers ==
    LET drivers == SelectSeq(users, driver_filter)
    IN  [i \in DOMAIN drivers |-> attach_status(drivers[i])]

get_drivers ==
    /\ last' = IF ~dbOK
               THEN [op |-> "list_available_drivers", result |-> StoreUnavailable]
               ELSE [op |-> "list_available_drivers", result |-> OK,
                     drivers |-> list_available_drivers]
    /\ UNCHANGED <<dbOK, users, rides, statuses, nextOid, clock, pc, body, existing>>

\* POST /api/rides
request_ride(rider_id, pickup, dropoff) ==
    /\ IF ~dbOK
       THEN /\ last' = [op |-> "create_ride", result |-> StoreUnavailable]
            /\ UNCHANGED <<rides, nextOid, clock>>
       ELSE /\ Len(rides) < MaxRides
            /\ clock < MaxClock
            /\ rides' = create_document(rides, Ride(rider_id, pickup, dropoff, "requested"),
                                        nextOid, clock)
            /\ nextOid' = nextOid + 1
            /\ clock' = clock + 1
            /\ last' = [op |-> "create_ride", result |-> OK, id |-> str_oid(nextOid)]
    /\ UNCHANGED <<dbOK, users, statuses, pc, body, existing>>

\* POST /api/rides/{ride_id}/assign
\* a $set that leaves the status alone
assign_set_driver_only(driver_id, now) ==
    [driver_id |-> Some(driver_id), updated_at |-> now]

assign_set(driver_id, now) ==
    [driver_id |-> Some(driver_id), status |-> "accepted", updated_at |-> now]

assign_driver(ride_id, driver_id) ==
    LET req == [op |-> "assign_driver"]
    IN
    /\ IF ~dbOK
       THEN /\ last' = req @@ [result |-> StoreUnavailable]
            /\ UNCHANGED <<rides, clock>>
       ELSE IF ~ObjectIdValid(ride_id)
       THEN /\ last' = req @@ [result |-> InvalidId]
            /\ UNCHANGED <<rides, clock>>
       ELSE IF matched_count(rides, ObjectId(ride_id)) = 0
       THEN /\ last' = req @@ [result |-> NotFound]
            /\ UNCHANGED <<rides, clock>>
       ELSE /\ clock < MaxClock
            /\ rides' = update_one(rides, ObjectId(ride_id), assign_set(driver_id, clock))
            /\ clock' = clock + 1
            /\ last' = req @@ [result |-> OK]
    /\ UNCHANGED <<dbOK, users, statuses, nextOid, pc, body, existing>>

\* POST /api/rides/{ride_id}/status
\* a membership test that forgets the initial state, and one that accepts anything
status_allowed_no_requested(status) == status \in ValidStatuses \ {"requested"}
status_allowed_any(status) == TRUE

status_allowed(status) == status \in ValidStatuses

\* a $set that also clears the assigned driver
status_set_clears_driver(status, now) ==
    [status |-> status, updated_at |-> now, driver_id |-> None]

status_set(status, now) == [status |-> status, updated_at |-> now]

update_ride_status(ride_id, status) ==
    LET req == [op |-> "set_status"]
    IN
    /\ IF ~dbOK
       THEN /\ last' = req @@ [result |-> StoreUnavailable]
            /\ UNCHANGED <<rides, clock>>
       ELSE IF ~ObjectIdValid(ride_id)
       THEN /\ last' = req @@ [result |-> InvalidId]
            /\ UNCHANGED <<rides, clock>>
       ELSE IF ~status_allowed(status)
       THEN /\ last' = req @@ [result |-> InvalidStatus]
            /\ UNCHANGED <<rides, clock>>
       ELSE IF matched_count(rides, ObjectId(ride_id)) = 0
       THEN /\ last' = req @@ [result |-> NotFound]
            /\ UNCHANGED <<rides, clock>>
       ELSE /\ clock < MaxClock
            /\ rides' = update_one(rides, ObjectId(ride_id), status_set(status, clock))
            /\ clock' = clock + 1
            /\ last' = req @@ [result |-> OK]
    /\ UNCHANGED <<dbOK, users, statuses, nextOid, pc, body, existing>>

\* reports between their lookup and their write
InFlight == Cardinality({q \in Procs : pc[q] = "write"})

\* The two ride handlers step by step, for calls that overlap: the checks made
\* before the store is touched, the single update_one, and the response built
\* from its matched_count.  A caller between two steps keeps its arguments in
\* body and the outcome of its update_one in existing.
RideInFlight == Cardinality({q \in Procs : pc[q] \in {"assign_update", "status_update"}})

ride_response(matched) == IF matched = 0 THEN NotFound ELSE OK

assign_driver_begin(p, ride_id, driver_id) ==
    /\ pc[p] = "idle"
    /\ \A q \in Procs : q < p => pc[q] # "idle"
    /\ IF ~dbOK
       THEN /\ last' = [op |-> "assign_driver", result |-> StoreUnavailable]
            /\ UNCHANGED <<pc, body>>
       ELSE IF ~ObjectIdValid(ride_id)
       THEN /\ last' = [op |-> "assign_driver", result |-> InvalidId]
            /\ UNCHANGED <<pc, body>>
       ELSE /\ clock + InFlight + RideInFlight < MaxClock
            /\ pc' = [pc EXCEPT ![p] = "assign_update"]
            /\ body' = [body EXCEPT ![p] = Some([ride_id |-> ride_id, driver_id |-> driver_id])]
            /\ UNCHANGED last
    /\ UNCHANGED <<dbOK, users, rides, statuses, nextOid, clock, existing>>

assign_driver_update(p) ==
    /\ pc[p] = "assign_update"
    /\ clock < MaxClock
    /\ LET oid == ObjectId(body[p][1].ride_id)
           matched == matched_count(rides, oid)
       IN  /\ rides' = update_one(rides, oid, assign_set(body[p][1].driver_id, clock))
           /\ existing' = [existing EXCEPT ![p] = Some([matched |-> matched, at |-> clock])]
           /\ clock' = clock + matched
    /\ pc' = [pc EXCEPT ![p] = "assign_return"]
    /\ UNCHANGED <<dbOK, users, statuses, nextOid, body, last>>

assign_driver_return(p) ==
    /\ pc[p] = "assign_return"
    /\ last' = [op |-> "assign_driver", result |-> ride_response(existing[p][1].matched)]
    /\ pc' = [pc EXCEPT ![p] = "idle"]
    /\ body' = [body EXCEPT ![p] = None]
    /\ existing' = [existing EXCEPT ![p] = None]
    /\ UNCHANGED <<dbOK, users, rides, statuses, nextOid, clock>>

update_ride_status_begin(p, ride_id, status) ==
    /\ pc[p] = "idle"
    /\ \A q \in Procs : q < p => pc[q] # "idle"
    /\ IF ~dbOK
       THEN /\ last' = [op |-> "set_status", result |-> StoreUnavailable]
            /\ UNCHANGED <<pc, body>>
       ELSE IF ~ObjectIdValid(ride_id)
       THEN /\ last' = [op |-> "set_status", result |-> InvalidId]
            /\ UNCHANGED <<pc, body>>
       ELSE IF ~status_allowed(status)
       THEN /\ last' = [op |-> "set_status", result |-> InvalidStatus]
            /\ UNCHANGED <<pc, body>>
       ELSE /\ clock + InFlight + RideInFlight < MaxClock
            /\ pc' = [pc EXCEPT ![p] = "status_update"]
            /\ body' = [body EXCEPT ![p] = Some([ride_id |-> ride_id, status |-> status])]
            /\ UNCHANGED last
    /\ UNCHANGED <<dbOK, users, rides, statuses, nextOid, clock, existing>>

update_ride_status_update(p) ==
    /\ pc[p] = "status_update"
    /\ clock < MaxClock
    /\ LET oid == ObjectId(body[p][1].ride_id)
           matched == matched_count(rides, oid)
       IN  /\ rides' = update_one(rides, oid, status_set(body[p][1].status, clock))
           /\ existing' = [existing EXCEPT ![p] = Some([matched |-> matched, at |-> clock])]
           /\ clock' = clock + matched
    /\ pc' = [pc EXCEPT ![p] = "status_return"]
    /\ UNCHANGED <<dbOK, users, statuses, nextOid, body, last>>

update_ride_status_return(p) ==
    /\ pc[p] = "status_return"
    /\ last' = [op |-> "set_status", result |-> ride_response(existing[p][1].matched)]
    /\ pc' = [pc EXCEPT ![p] = "idle"]
    /\ body' = [body EXCEPT ![p] = None]
    /\ existing' = [existing EXCEPT ![p] = None]
    /\ UNCHANGED <<dbOK, users, rides, statuses, nextOid, clock>>

\* POST /api/driver/status, first half: the lookup of the existing record

update_driver_status_find(p, b) ==
    /\ pc[p] = "idle"
    /\ \A q \in Procs : q < p => pc[q] # "idle"
    /\ IF ~dbOK
       THEN /\ last' = [op |-> "report_status", result |-> StoreUnavailable]
            /\ UNCHANGED <<pc, body, existing>>
       ELSE /\ clock + InFlight < MaxClock
            /\ existing' = [existing EXCEPT ![p] = status_lookup(statuses, b.user_id)]
            /\ body' = [body EXCEPT ![p] = Some(b)]
            /\ pc' = [pc EXCEPT ![p] = "write"]
            /\ UNCHANGED last
    /\ UNCHANGED <<dbOK, users, rides, statuses, nextOid, clock>>

\* POST /api/driver/status, second half: update in place or create
status_data(b) == [is_available |-> b.is_available, lat |-> b.lat, lng |-> b.lng]

\* an atomic upsert keyed by user_id: the lookup is repeated at the write
status_write_atomic(sts, ex, b, oid, now) ==
    LET cur == status_lookup(sts, b.user_id)
    IN  IF cur # None
        THEN update_one(sts, cur[1]._id, status_data(b) @@ [updated_at |-> now])
        ELSE create_document(sts, [user_id |-> b.user_id] @@ status_data(b), oid, now)

\* an update in place that refreshes the availability and forgets the location
status_write_availability_only(sts, ex, b, oid, now) ==
    IF ex # None
    THEN update_one(sts, ex[1]._id, [is_available |-> b.is_available, updated_at |-> now])
    ELSE create_document(sts, [user_id |-> b.user_id] @@ status_data(b), oid, now)

\* a write that inserts whatever the lookup found
status_write_always_insert(sts, ex, b, oid, now) ==
    create_document(sts, [user_id |-> b.user_id] @@ status_data(b), oid, now)

status_write(sts, ex, b, oid, now) ==
    IF ex # None
    THEN update_one(sts, ex[1]._id, status_data(b) @@ [updated_at |-> now])
    ELSE create_document(sts, [user_id |-> b.user_id] @@ status_data(b), oid, now)

update_driver_status_write(p) ==
    /\ pc[p] = "write"
    /\ clock < MaxClock
    /\ statuses' = status_write(statuses, existing[p], body[p][1], nextOid, clock)
    /\ nextOid' = IF existing[p] = None THEN nextOid + 1 ELSE nextOid
    /\ clock' = clock + 1
    /\ last' = [op |-> "report_status", result |-> OK]
    /\ pc' = [pc EXCEPT ![p] = "idle"]
    /\ body' = [body EXCEPT ![p] = None]
    /\ existing' = [existing EXCEPT ![p] = None]
    /\ UNCHANGED <<dbOK, users, rides>>

ReportInputs ==
    {UpdateDriverStatus(u, pl[1], pl[2], pl[3]) :
        u \in ReportIdInputs, pl \in PayloadInputs}

\* one report at a time: a report starts only when no other is in flight
NoReportInFlight == \A q \in Procs : pc[q] = "idle"

Next ==
    \/ \E role \in {"rider", "driver"}, a \in BOOLEAN : create_user(role, a)
    \/ get_drivers
    \/ \E r \in RiderIdInputs : request_ride(r, "A", "B")
    \/ \E f \in RiderFilterInputs : get_rides(f)
    \/ \E r \in RideIdInputs, d \in DriverIdInputs : assign_driver(r, d)
    \/ \E r \in RideIdInputs, s \in StatusInputs : update_ride_status(r, s)
    \/ \E p \in Procs, b \in ReportInputs : update_driver_status_find(p, b)
    \/ \E p \in Procs : update_driver_status_write(p)

SeqNext ==
    \/ \E role \in {"rider", "driver"}, a \in BOOLEAN : create_user(role, a)
    \/ get_drivers
    \/ \E r \in RiderIdInputs : request_ride(r, "A", "B")
    \/ \E f \in RiderFilterInputs : get_rides(f)
    \/ \E r \in RideIdInputs, d \in DriverIdInputs : assign_driver(r, d)
    \/ \E r \in RideIdInputs, s \in StatusInputs : update_ride_status(r, s)
    \/ \E p \in Procs, b \in ReportInputs :
          NoReportInFlight /\ update_driver_status_find(p, b)
    \/ \E p \in Procs : update_driver_status_write(p)

\* the driver directory and the status upsert alone, reports overlapping
RaceNext ==
    \/ \E role \in {"rider", "driver"}, a \in BOOLEAN : create_user(role, a)
    \/ get_drivers
    \/ \E p \in Procs, b \in ReportInputs : update_driver_status_find(p, b)
    \/ \E p \in Procs : update_driver_status_write(p)

\* the ride lifecycle next to registration and the directory, no report in flight
RideNext ==
    \/ \E role \in {"rider", "driver"}, a \in BOOLEAN : create_user(role, a)
    \/ get_drivers
    \/ \E r \in RiderIdInputs : request_ride(r, "A", "B")
    \/ \E f \in RiderFilterInputs : get_rides(f)
    \/ \E r \in RideIdInputs, d \in DriverIdInputs : assign_driver(r, d)
    \/ \E r \in RideIdInputs, s \in StatusInputs : update_ride_status(r, s)

\* assign_driver and set_status calls overlapping on a store that holds one
\* ride, requested by rider 1 at time 0
ConcRideIdInputs == {str_oid(1), NotAnId}
ConcStatusInputs == {"picked_up", "completed", "bogus"}

ConcInit ==
    /\ dbOK = TRUE
    /\ users = <<>>
    /\ rides = create_document(<<>>, Ride(str_oid(1), "A", "B", "requested"), 1, 0)
    /\ statuses = <<>>
    /\ nextOid = 2
    /\ clock = 1
    /\ pc = [p \in Procs |-> "idle"]
    /\ body = [p \in Procs |-> None]
    /\ existing = [p \in Procs |-> None]
    /\ last = [op |-> "create_ride", result |-> OK, id |-> str_oid(1)]

ConcNext ==
    \/ \E p \in Procs, r \in ConcRideIdInputs, d \in DriverIdInputs : assign_driver_begin(p, r, d)
    \/ \E p \in Procs : assign_driver_update(p)
    \/ \E p \in Procs : assign_driver_return(p)
    \/ \E p \in Procs, r \in ConcRideIdInputs, s \in ConcStatusInputs : update_ride_status_begin(p, r, s)
    \/ \E p \in Procs : update_ride_status_update(p)
    \/ \E p \in Procs : update_ride_status_return(p)

\* One client going through the whole service on an empty store: it registers
\* a rider, requests a ride for that rider, registers a driver, reports the
\* driver available, assigns the driver to the ride and completes the ride,
\* each call made with the ids the earlier calls returned, and it reads the
\* directory and the ride list in between.  ScenarioWrites is the number of
\* writes on that path; the clock starts that many ticks before MaxClock.
ScenarioWrites == 6
ScenarioRider == str_oid(users[1]._id)
ScenarioDriver == str_oid(users[2]._id)
ScenarioRide == str_oid(rides[1]._id)
ScenarioReports ==
    {UpdateDriverStatus(ScenarioDriver, TRUE, lat, lng) :
        lat \in {None, Some(1)}, lng \in {None, Some(2)}}

ScenarioInit ==
    /\ dbOK = TRUE
    /\ users = <<>>
    /\ rides = <<>>
    /\ statuses = <<>>
    /\ nextOid = 1
    /\ clock = MaxClock - ScenarioWrites
    /\ pc = [p \in Procs |-> "idle"]
    /\ body = [p \in Procs |-> None]
    /\ existing = [p \in Procs |-> None]
    /\ last = [op |-> "none", result |-> OK]

ScenarioNext ==
    \/ users = <<>> /\ \E a \in BOOLEAN : create_user("rider", a)
    \/ Len(users) = 1 /\ rides = <<>> /\ request_ride(ScenarioRider, "A", "B")
    \/ Len(users) = 1 /\ Len(rides) = 1 /\ create_user("driver", TRUE)
    \/ /\ Len(users) = 2 /\ statuses = <<>> /\ NoReportInFlight
       /\ \E p \in Procs, b \in ScenarioReports : update_driver_status_find(p, b)
    \/ \E p \in Procs : update_driver_status_write(p)
    \/ get_drivers
    \/ /\ statuses # <<>> /\ rides[1].status = "requested"
       /\ assign_driver(ScenarioRide, ScenarioDriver)
    \/ /\ Len(rides) = 1 /\ rides[1].status = "accepted"
       /\ update_ride_status(ScenarioRide, "completed")
    \/ Len(users) > 0 /\ \E f \in {None, Some(ScenarioRider)} : get_rides(f)

\* the listing alone, on stores of many rides: one registered rider (id 1) and
\* n rides, all but at most one of them the rider's, whose creation times are
\* not in store order (create_document takes the time before it inserts)
ListedRide(i, k, j) ==
    Ride(IF i = j THEN EmptyStr ELSE str_oid(1), "A", "B", "requested")
        @@ [_id |-> i + 1, created_at |-> (i * k) % TimeSpread,
            updated_at |-> (i * k) % TimeSpread]

ListInit ==
    /\ dbOK = TRUE
    /\ users = create_document(<<>>, User("n", "rider", None, TRUE), 1, 0)
    /\ \E n \in 0..MaxListed, k \in 1..TimeSpread, j \in 0..2 :
          /\ rides = [i \in 1..n |-> ListedRide(i, k, j)]
          /\ nextOid = n + 2
    /\ statuses = <<>>
    /\ clock = TimeSpread
    /\ pc = [p \in Procs |-> "idle"]
    /\ body = [p \in Procs |-> None]
    /\ existing = [p \in Procs |-> None]
    /\ last = [op |-> "none", result |-> OK]

ListNext == \E f \in RiderFilterInputs : get_rides(f)

Spec == Init /\ [][Next]_vars
ListSpec == ListInit /\ [][ListNext]_vars
ScenarioSpec == ScenarioInit /\ [][ScenarioNext]_vars
ConcSpec == ConcInit /\ [][ConcNext]_vars
RideSpec == Init /\ [][RideNext]_vars
RaceSpec == Init /\ [][RaceNext]_vars
SeqSpec == Init /\ [][SeqNext]_vars

\* ---- properties ----
StatusesOf(sts, user_id) == {i \in DOMAIN sts : sts[i].user_id = user_id}
RideAt(rs, ride_id) == rs[CHOOSE i \in DOMAIN rs : rs[i]._id = ObjectId(ride_id)]
WriteStep(p) == pc[p] = "write" /\ pc'[p] = "idle"

\* C1: with report_status calls run one at a time, the store holds at most one
\* DriverStatus record for every user_id.
C1_AtMostOneStatusPerUser ==
    \A i, j \in DOMAIN statuses :
        statuses[i].user_id = statuses[j].user_id => i = j

\* a record that a later report has updated in place
C1_Witness ==
    /\ last.op = "report_status"
    /\ \E i \in DOMAIN statuses : statuses[i].updated_at > statuses[i].created_at

\* C2: a report whose lookup found no record creates one at its write even when
\* another report for the same user_id has created a record in between, so two
\* overlapping first reports leave two records for one user_id.
C2_StaleLookupCreatesDuplicate ==
    [][\A p \in Procs :
          (WriteStep(p) /\ existing[p] = None
              /\ StatusesOf(statuses, body[p][1].user_id) # {})
          => /\ Len(statuses') = Len(statuses) + 1
             /\ Cardinality(StatusesOf(statuses', body[p][1].user_id)) >= 2]_vars

\* two DriverStatus records for one user_id
C2_Witness ==
    \E i, j \in DOMAIN statuses :
        i # j /\ statuses[i].user_id = statuses[j].user_id

\* C3 as stated: a completed or cancelled status never changes again.
C3_TerminalIsPermanent ==
    [][\A i \in DOMAIN rides :
          rides[i].status \in Terminal => rides'[i].status = rides[i].status]_vars

\* C3 as amended: rides are never deleted, and a ride's status (completed and
\* cancelled included) changes only in a successful set_status or assign_driver
\* on that ride, which changes the status of no other ride.
C3_StatusChangesOnlyByOwnUpdate ==
    [][\A i \in DOMAIN rides :
          /\ i \in DOMAIN rides'
          /\ rides'[i]._id = rides[i]._id
          /\ rides'[i].status # rides[i].status
             => /\ last'.result = OK
                /\ \A j \in DOMAIN rides \ {i} : rides'[j].status = rides[j].status
                /\ \/ \E s \in ValidStatuses :
                        update_ride_status(str_oid(rides[i]._id), s)
                   \/ \E d \in DriverIdInputs :
                        assign_driver(str_oid(rides[i]._id), d)]_vars

\* a completed or cancelled ride on which a set_status has just been answered
C3_Witness ==
    /\ last.op = "set_status"
    /\ \E i \in DOMAIN rides :
          rides[i].status \in Terminal /\ rides[i].updated_at > rides[i].created_at

\* C4: set_status on an existing ride with any of the five statuses succeeds and
\* leaves the ride with that status, whatever the status was.
C4_AnyTransitionAccepted ==
    [][\A r \in RideIdStrs, s \in ValidStatuses :
          (last'.op = "set_status" /\ update_ride_status(r, s))
          => last'.result = OK /\ RideAt(rides', r).status = s]_vars

\* a ride that was assigned a driver and is back in status requested
C4_Witness ==
    /\ last = [op |-> "set_status", result |-> OK]
    /\ \E i \in DOMAIN rides :
          rides[i].status = "requested" /\ rides[i].driver_id # None

\* C5 as stated: set_status with a status outside the five values fails with
\* InvalidStatus, whatever the ride id, and changes no ride.
C5_BogusStatusAlwaysInvalidStatus ==
    [][\A r \in RideIdInputs, s \in StatusInputs \ ValidStatuses :
          (dbOK /\ last'.op = "set_status" /\ update_ride_status(r, s))
          => last'.result = InvalidStatus /\ rides' = rides]_vars

\* C5 as amended: with a well-formed ride id the call fails with InvalidStatus,
\* with a malformed one it fails with InvalidId, and in both cases no ride changes.
C5_BogusStatusRejected ==
    [][\A r \in RideIdInputs, s \in StatusInputs \ ValidStatuses :
          (dbOK /\ last'.op = "set_status" /\ update_ride_status(r, s))
          => /\ last'.result = IF ObjectIdValid(r) THEN InvalidStatus ELSE InvalidId
             /\ rides' = rides]_vars

\* a set_status answered InvalidStatus while a ride exists
C5_Witness ==
    /\ last = [op |-> "set_status", result |-> InvalidStatus]
    /\ Len(rides) > 0

\* C6: assign_driver on an existing ride succeeds and leaves the ride with that
\* driver_id and status accepted, whatever its status and driver_id were.
C6_AssignForcesAccepted ==
    [][\A r \in RideIdStrs, d \in DriverIdInputs :
          (last'.op = "assign_driver" /\ assign_driver(r, d))
          => /\ last'.result = OK
             /\ RideAt(rides', r).driver_id = Some(d)
             /\ RideAt(rides', r).status = "accepted"]_vars

\* a ride accepted by an assign_driver that came at least two writes after its creation
C6_Witness ==
    /\ last = [op |-> "assign_driver", result |-> OK]
    /\ \E i \in DOMAIN rides :
          /\ rides[i].status = "accepted"
          /\ rides[i].driver_id # None
          /\ rides[i].updated_at > rides[i].created_at + 1

\* C7: assign_driver with a malformed ride id fails with InvalidId, with a
\* well-formed id of no ride it fails with NotFound, and no ride is created or
\* modified in either case.
C7_AssignRejections ==
    [][\A r \in RideIdInputs, d \in DriverIdInputs :
          (dbOK /\ last'.op = "assign_driver" /\ assign_driver(r, d))
          => /\ ~ObjectIdValid(r) => (last'.result = InvalidId /\ rides' = rides)
             /\ (ObjectIdValid(r) /\ r \notin RideIdStrs)
                => (last'.result = NotFound /\ rides' = rides)]_vars

\* an assign_driver answered NotFound while a ride exists
C7_Witness ==
    /\ last = [op |-> "assign_driver", result |-> NotFound]
    /\ Len(rides) > 0

\* C8: list_available_drivers returns exactly the users with role driver and
\* is_active true, each once, with or without a reported status.
ActiveDrivers == {j \in DOMAIN users : users[j].role = "driver" /\ users[j].is_active}

C8_ExactlyActiveDrivers ==
    LET L == list_available_drivers
    IN  /\ Len(L) = Cardinality(ActiveDrivers)
        /\ \A j \in ActiveDrivers : \E i \in DOMAIN L : L[i].id = str_oid(users[j]._id)
        /\ \A i \in DOMAIN L :
              \E j \in ActiveDrivers :
                  /\ L[i].id = str_oid(users[j]._id)
                  /\ L[i].role = "driver" /\ L[i].is_active
                  /\ L[i].name = users[j].name /\ L[i].phone = users[j].phone
        /\ (last.op = "list_available_drivers" /\ last.result = OK)
              => last.drivers = L

\* a listing of one active driver without status, next to a user it leaves out
C8_Witness ==
    /\ last.op = "list_available_drivers" /\ last.result = OK
    /\ Len(users) = 2
    /\ Len(last.drivers) = 1
    /\ last.drivers[1].status = None

\* C9: the status attached to a listed driver is the most recently written
\* DriverStatus with that user_id, and null exactly when there is none.
C9_AttachesMostRecentStatus ==
    LET L == list_available_drivers
    IN  \A i \in DOMAIN L :
          LET recs == StatusesOf(statuses, L[i].id)
          IN  /\ (L[i].status = None) <=> (recs = {})
              /\ recs # {}
                 => \E k \in recs :
                      /\ \A m \in recs : statuses[m].updated_at <= statuses[k].updated_at
                      /\ L[i].status[1].updated_at = statuses[k].updated_at
                      /\ L[i].status[1].is_available = statuses[k].is_available

\* C10: with reports run one at a time, a report leaves exactly one record for
\* its user_id, with the id the record already had and with is_available, lat
\* and lng as reported; no other record changes, and nothing else writes statuses.
C10_UpsertKeepsIdTakesLatest ==
    [][/\ (\A p \in Procs : ~WriteStep(p)) => statuses' = statuses
       /\ \A p \in Procs :
            WriteStep(p)
            => LET b == body[p][1]
                   old == StatusesOf(statuses, b.user_id)
                   new == StatusesOf(statuses', b.user_id)
               IN  /\ Cardinality(new) = 1
                   /\ \A k \in new :
                        /\ statuses'[k].is_available = b.is_available
                        /\ statuses'[k].lat = b.lat
                        /\ statuses'[k].lng = b.lng
                        /\ \A m \in old : statuses'[k]._id = statuses[m]._id
                   /\ \A m \in DOMAIN statuses :
                        m \notin old => statuses'[m] = statuses[m]]_vars

\* a record updated in place by a report that omitted lat and lng
C10_Witness ==
    /\ last = [op |-> "report_status", result |-> OK]
    /\ \E i \in DOMAIN statuses :
          /\ statuses[i].updated_at > statuses[i].created_at
          /\ statuses[i].lat = None /\ statuses[i].lng = None

\* C11: list_rides returns at most 20 rides, newest-created first, and they are
\* the most recently created of the matching rides: the order is applied
\* before the cap.
Matching(f) == {i \in DOMAIN rides : f = None \/ rides[i].rider_id = f[1]}

C11_NewestTwentyInOrder ==
    \A f \in {None, Some(str_oid(1))} :
        LET L == list_rides(f)
            listed == {ObjectId(L[i].id) : i \in DOMAIN L}
        IN  /\ Len(L) <= 20
            /\ Cardinality(listed) = Len(L)
            /\ Len(L) = IF Cardinality(Matching(f)) < 20
                        THEN Cardinality(Matching(f)) ELSE 20
            /\ \A i \in DOMAIN L : \E m \in Matching(f) : to_str_id(rides[m]) = L[i]
            /\ \A i, k \in DOMAIN L : i < k => L[i].created_at >= L[k].created_at
            /\ \A m \in Matching(f) :
                  rides[m]._id \notin listed
                  => \A i \in DOMAIN L : L[i].created_at >= rides[m].created_at

\* a listing cut to 20 that left out an older ride stored before a listed one
C11_Witness ==
    /\ last.op = "list_rides" /\ last.result = OK
    /\ Len(last.rides) = 20
    /\ Len(rides) > 20
    /\ \E m \in DOMAIN rides :
          /\ \A i \in DOMAIN last.rides : ObjectId(last.rides[i].id) # rides[m]._id
          /\ \E i \in DOMAIN last.rides : ObjectId(last.rides[i].id) > rides[m]._id

\* C12: create_ride makes a ride with status requested and no driver_id, and a
\* ride's driver_id changes only in a successful assign_driver on that ride, so
\* a ride with a driver_id has been updated since it was created.
C12_DriverOnlyFromAssign ==
    [][/\ \A r \in RiderIdInputs :
            (dbOK /\ last'.op = "create_ride" /\ request_ride(r, "A", "B"))
            => LET new == rides'[Len(rides')]
               IN  /\ Len(rides') = Len(rides) + 1
                   /\ new.status = "requested"
                   /\ new.driver_id = None
                   /\ new.rider_id = r
                   /\ last'.id = str_oid(new._id)
       /\ \A i \in DOMAIN rides :
            rides'[i].driver_id # rides[i].driver_id
            => /\ last'.result = OK
               /\ \E d \in DriverIdInputs :
                    /\ assign_driver(str_oid(rides[i]._id), d)
                    /\ rides'[i].driver_id = Some(d)
       /\ \A i \in DOMAIN rides' :
            rides'[i].driver_id # None
            => rides'[i].updated_at > rides'[i].created_at]_vars

\* a ride that set_status has completed and that still has no driver
C12_Witness ==
    /\ last = [op |-> "set_status", result |-> OK]
    /\ \E i \in DOMAIN rides :
          rides[i].status = "completed" /\ rides[i].driver_id = None

\* C13: while the store is not configured every operation that has been called
\* has failed with StoreUnavailable (status 500), whatever its arguments, and
\* no record exists, no identifier was issued and no report is in flight.
C13_UnavailableStoreFailsAll ==
    ~dbOK
    => /\ users = <<>> /\ rides = <<>> /\ statuses = <<>>
       /\ nextOid = 1
       /\ \A p \in Procs : pc[p] = "idle"
       /\ last.op # "none"
          => /\ last.result = [code |-> 500, detail |-> "Database not configured"]
             /\ DOMAIN last = {"op", "result"}

\* a set_status answered while the store is not configured
C13_Witness ==
    /\ ~dbOK
    /\ last.op = "set_status"

\* C15: the identifiers of all records (users, rides, driver statuses) are
\* pairwise different, and the id a create has just returned is the newest
\* identifier issued and belongs to exactly one record.
IssuedIds(coll) == {coll[i]._id : i \in DOMAIN coll}

C15_FreshIds ==
    LET ids == IssuedIds(users) \cup IssuedIds(rides) \cup IssuedIds(statuses)
    IN  /\ Cardinality(ids) = Len(users) + Len(rides) + Len(statuses)
        /\ ids = 1..(nextOid - 1)
        /\ (last.op \in {"create_user", "create_ride"} /\ last.result = OK)
              => /\ ObjectIdValid(last.id)
                 /\ ObjectId(last.id) \in
                      IF last.op = "create_user" THEN IssuedIds(users) ELSE IssuedIds(rides)
                 /\ \A i \in ids : i <= ObjectId(last.id)

\* a ride created after a user and a driver status had taken identifiers
C15_Witness ==
    /\ last.op = "create_ride" /\ last.result = OK
    /\ Len(users) > 0 /\ Len(statuses) > 0

\* C16: with the store configured, assign_driver and set_status called with a
\* malformed ride id answer InvalidId, for set_status whatever the status
\* value is (valid or not), and leave every collection unchanged.
C16_MalformedRideIdRejectedFirst ==
    [][/\ \A d \in DriverIdInputs :
            (dbOK /\ last'.op = "assign_driver" /\ assign_driver(NotAnId, d))
            => (last'.result = InvalidId /\ UNCHANGED <<users, rides, statuses, nextOid, clock>>)
       /\ \A s \in StatusInputs :
            (dbOK /\ last'.op = "set_status" /\ update_ride_status(NotAnId, s))
            => (last'.result = InvalidId /\ UNCHANGED <<users, rides, statuses, nextOid, clock>>)]_vars

\* a set_status answered InvalidId while a ride exists
C16_Witness ==
    /\ last = [op |-> "set_status", result |-> InvalidId]
    /\ Len(rides) > 0

\* C17 as stated: for every supplied rider_id, the empty string included,
\* list_rides returns only rides with exactly that rider_id.
C17_SuppliedRiderAlwaysFilters ==
    \A q \in RiderIdInputs :
        \A i \in DOMAIN list_rides(Some(q)) : list_rides(Some(q))[i].rider_id = q

\* C19: a report whose lookup found a record creates none at its write: no
\* user_id's number of records changes; a write whose lookup found none adds
\* exactly one record, for its own user_id; nothing else changes the number of
\* records; and a lookup made while a record for the user_id exists finds one.
C19_FoundReportNeverCreates ==
    [][/\ (\A p \in Procs : ~WriteStep(p)) => statuses' = statuses
       /\ \A p \in Procs :
            /\ WriteStep(p)
               => LET u == body[p][1].user_id
                      grown == IF existing[p] = None THEN 1 ELSE 0
                  IN  /\ Len(statuses') = Len(statuses) + grown
                      /\ \A v \in ReportIdInputs :
                           Cardinality(StatusesOf(statuses', v))
                             = Cardinality(StatusesOf(statuses, v))
                               + (IF v = u THEN grown ELSE 0)
            /\ (pc[p] = "idle" /\ pc'[p] = "write")
               => (StatusesOf(statuses, body'[p][1].user_id) # {}
                      => existing'[p] # None)]_vars

\* two records for one user_id, one of them updated in place after both existed
C19_Witness ==
    \E i, j \in DOMAIN statuses :
        /\ i # j
        /\ statuses[i].user_id = statuses[j].user_id
        /\ statuses[i].updated_at > statuses[i].created_at
        /\ statuses[i].updated_at > statuses[j].created_at
        /\ Cardinality(StatusesOf(statuses, statuses[i].user_id)) = 2

\* C20: set_status leaves the targeted ride's driver_id, rider_id, pickup and
\* dropoff as they were, assign_driver leaves its rider_id, pickup and dropoff
\* as they were, and both leave every other ride, every user and every driver
\* status unchanged and create no record.
RideFrame(r, fields) ==
    /\ users' = users /\ statuses' = statuses /\ nextOid' = nextOid
    /\ Len(rides') = Len(rides)
    /\ \A i \in DOMAIN rides :
          IF ObjectIdValid(r) /\ rides[i]._id = ObjectId(r)
          THEN /\ DOMAIN rides'[i] = DOMAIN rides[i]
               /\ \A f \in fields : rides'[i][f] = rides[i][f]
          ELSE rides'[i] = rides[i]

Returning(p) == pc[p] \in {"assign_return", "status_return"}

C18_OverlappingRideWritesSerialize ==
    /\ \A p \in Procs :
          (Returning(p) /\ \E i \in DOMAIN rides :
               rides[i]._id = ObjectId(body[p][1].ride_id)
                 /\ rides[i].created_at < existing[p][1].at)
          => ride_response(existing[p][1].matched) = OK
    /\ \A p, q \in Procs :
          (/\ p # q /\ Returning(p) /\ Returning(q)
           /\ body[p][1].ride_id = body[q][1].ride_id
           /\ existing[p][1].matched = 1 /\ existing[q][1].matched = 1
           /\ existing[q][1].at = existing[p][1].at + 1
           /\ clock = existing[q][1].at + 1)
          => LET ride == RideAt(rides, body[p][1].ride_id)
                 a == pc[p] = "assign_return"
                 b == pc[q] = "assign_return"
             IN  /\ ride.updated_at = existing[q][1].at
                 /\ (a /\ b) => /\ ride.status = "accepted"
                                /\ ride.driver_id \in {Some(body[p][1].driver_id),
                                                       Some(body[q][1].driver_id)}
                 /\ (a /\ ~b) => /\ ride.driver_id = Some(body[p][1].driver_id)
                                 /\ ride.status \in {"accepted", body[q][1].status}
                 /\ (~a /\ b) => /\ ride.driver_id = Some(body[q][1].driver_id)
                                 /\ ride.status \in {"accepted", body[p][1].status}
                 /\ (~a /\ ~b) => ride.status \in {body[p][1].status, body[q][1].status}

\* an assign_driver and a set_status on one ride, both begun before either
\* wrote, both written: the set_status wrote first, the assign right after it
C18_Witness ==
    \E p, q \in Procs :
        /\ pc[p] = "status_return" /\ pc[q] = "assign_return"
        /\ body[p][1].ride_id = body[q][1].ride_id
        /\ existing[p][1].matched = 1 /\ existing[q][1].matched = 1
        /\ existing[q][1].at = existing[p][1].at + 1
        /\ p > q
        /\ RideAt(rides, body[p][1].ride_id).status = "accepted"

\* C14: along the end-to-end path every step gives what the scenario says:
\* the created ride is requested with no driver; once the driver has reported,
\* list_available_drivers includes the driver; assign_driver leaves the ride
\* accepted with that driver; set_status(completed) leaves it completed; and
\* list_rides for the rider returns exactly that one ride.
C14_EndToEndScenario ==
    Len(rides) = 1
    => LET ride == rides[1]
       IN  /\ ride.rider_id = ScenarioRider /\ ride.pickup = "A" /\ ride.dropoff = "B"
           /\ last.op = "create_ride"
              => /\ last.result = OK /\ last.id = ScenarioRide
                 /\ ride.status = "requested" /\ ride.driver_id = None
           /\ statuses # <<>>
              => /\ \E i \in DOMAIN list_available_drivers :
                       list_available_drivers[i].id = ScenarioDriver
                 /\ last.op = "list_available_drivers"
                    => \E i \in DOMAIN last.drivers :
                          /\ last.drivers[i].id = ScenarioDriver
                          /\ last.drivers[i].status # None
                          /\ last.drivers[i].status[1].is_available = TRUE
           /\ last.op = "assign_driver"
              => /\ last.result = OK
                 /\ ride.status = "accepted"
                 /\ ride.driver_id = Some(ScenarioDriver)
           /\ last.op = "set_status"
              => /\ last.result = OK
                 /\ ride.status = "completed"
                 /\ ride.driver_id = Some(ScenarioDriver)
           /\ list_rides(Some(ScenarioRider)) = <<to_str_id(ride)>>
           /\ last.op = "list_rides"
              => /\ last.result = OK
                 /\ Len(last.rides) = 1
                 /\ last.rides[1].id = ScenarioRide
                 /\ last.rides[1].status = ride.status

\* the end of the path: the completed ride, listed for its rider
C14_Witness ==
    /\ last.op = "list_rides"
    /\ Len(last.rides) = 1
    /\ last.rides[1].status = "completed"
    /\ last.rides[1].driver_id = Some(str_oid(3))
    /\ last.rides[1].rider_id = str_oid(1)
    /\ Len(statuses) = 1 /\ statuses[1].is_available
====
